---- MODULE Spec2Model ----
(***************************************************************************)
(* Model of skills/video-frame-extractor/scripts/extract_video_frames.py:  *)
(* the timestamp scheduler (build_timestamps), the per-video job           *)
(* (convert_video) and the batch orchestrator (main).                      *)
(***************************************************************************)
EXTENDS Integers, Sequences, FiniteSets, TLC

(***************************************************************************)
(* Python floats.  duration_seconds, interval_seconds and the timestamps   *)
(* are IEEE-754 binary64 values.  The model works on the binary64 values   *)
(* of the form  w + u * 2^-52  with w a small integer and u a small        *)
(* natural number, written <<w, u>>: 30.0 is <<30, 0>> and                 *)
(* 1.0000000000000002 is <<1, 1>>.  On these values addition and           *)
(* comparison below are exactly what binary64 computes (round to nearest,  *)
(* ties to even).  A value <= 0 is <<w, 0>> with w <= 0.                   *)
(***************************************************************************)
Zero == <<0, 0>>

\* floor(log2(w)) for w >= 1: the binade [2^k, 2^(k+1)) that holds w + u*2^-52
RECURSIVE Binade(_)
Binade(w) == IF w < 2 THEN 0 ELSE 1 + Binade(w \div 2)

RECURSIVE Pow2(_)
Pow2(k) == IF k = 0 THEN 1 ELSE 2 * Pow2(k - 1)

\* Spacing of the binary64 values around w >= 1, in units of 2^-52
Quantum(w) == Pow2(Binade(w))

\* u rounded to the nearest multiple of q, a tie going to the even multiple
RoundTiesEven(u, q) ==
    LET lo == (u \div q) * q
        r  == u % q
    IN  IF 2 * r < q THEN lo
        ELSE IF 2 * r > q THEN lo + q
        ELSE IF (u \div q) % 2 = 0 THEN lo ELSE lo + q

\* x is a binary64 value of the modelled form
IsFloat(x) ==
    \/ x[1] <= 0 /\ x[2] = 0
    \/ x[1] >= 1 /\ x[2] >= 0 /\ x[2] % Quantum(x[1]) = 0

\* x + y as binary64 computes it (x, y >= 0)
FloatAdd(x, y) ==
    LET w == x[1] + y[1]
    IN  IF w = 0 THEN Zero ELSE <<w, RoundTiesEven(x[2] + y[2], Quantum(w))>>

\* x < y
FloatLess(x, y) == x[1] < y[1] \/ (x[1] = y[1] /\ x[2] < y[2])

\* x <= 0
FloatLeqZero(x) == ~FloatLess(Zero, x)

(***************************************************************************)
(* build_timestamps                                                        *)
(***************************************************************************)
\* The while loop: timestamps.add(cursor); cursor += interval_seconds
RECURSIVE CursorLoop(_, _, _, _)
CursorLoop(timestamps, cursor, duration_seconds, interval_seconds) ==
    IF FloatLess(cursor, duration_seconds)
    THEN CursorLoop(timestamps \cup {cursor},
                    FloatAdd(cursor, interval_seconds),
                    duration_seconds, interval_seconds)
    ELSE timestamps

\* sorted(timestamps): the elements of a set of floats in ascending order
RECURSIVE sorted(_)
sorted(S) ==
    IF S = {} THEN <<>>
    ELSE LET m == CHOOSE x \in S : \A y \in S : ~FloatLess(y, x)
         IN  <<m>> \o sorted(S \ {m})

\* Mutant: the duration test made before the interval test
build_timestamps_DurationFirst(duration_seconds, interval_seconds) ==
    IF FloatLeqZero(duration_seconds)
    THEN [raised |-> FALSE, value |-> <<Zero>>]
    ELSE IF FloatLeqZero(interval_seconds)
    THEN [raised |-> TRUE, value |-> <<>>]
    ELSE [raised |-> FALSE,
          value  |-> sorted(CursorLoop({Zero}, interval_seconds,
                                       duration_seconds, interval_seconds))]

\* The result of a call: raised = TRUE for the ValueError, else the list
build_timestamps(duration_seconds, interval_seconds) ==
    IF FloatLeqZero(interval_seconds)
    THEN [raised |-> TRUE, value |-> <<>>]
    ELSE IF FloatLeqZero(duration_seconds)
    THEN [raised |-> FALSE, value |-> <<Zero>>]
    ELSE [raised |-> FALSE,
          value  |-> sorted(CursorLoop({Zero}, interval_seconds,
                                       duration_seconds, interval_seconds))]


(***************************************************************************)
(* Frame names, results, and the collaborator's possible behaviours        *)
(***************************************************************************)
\* f"{timestamp:.3f}": the timestamp in thousandths, rounded.  u * 2^-52 is
\* far below half a thousandth, so the digits are those of w.
Fmt3f(timestamp) == timestamp[1] * 1000

\* f"frame_{index:06d}_t{ts}.jpg"
\* Mutant: the index left out of the name
output_frame_name_TimestampOnly(index, timestamp) == <<"frame", 0, Fmt3f(timestamp)>>

\* f"frame_{index:06d}_t{timestamp:.3f}".replace(".", "p") + ".jpg"
output_frame_name(index, timestamp) == <<"frame", index, Fmt3f(timestamp)>>

\* What one ffmpeg call can do: exit with code zero or not (run_command
\* never raises on a non-zero code; extract_one_frame / extract_last_frame
\* raise RuntimeError then), and write no output file ("missing"), an
\* empty one or one with content.
FileStates == {"missing", "empty", "nonempty"}
RenderOutcomes ==
    {[rc |-> 0, file |-> f] : f \in FileStates}
        \cup {[rc |-> 1, file |-> f] : f \in {"missing", "nonempty"}}

\* Mutant: the size check forgotten, frame_path.exists() alone
FileWritten_ExistsOnly(files, path) == path \in DOMAIN files

\* frame_path.exists() and frame_path.stat().st_size > 0
FileWritten(files, path) ==
    /\ path \in DOMAIN files
    /\ files[path] = "nonempty"

\* The file system after a collaborator call that wrote `file` at `path`
\* (ffmpeg -y overwrites what is there; a call that writes nothing leaves
\* what is there)
WriteFile(files, path, file) ==
    IF file = "missing"
    THEN files
    ELSE [p \in (DOMAIN files) \cup {path} |-> IF p = path THEN file ELSE files[p]]

(***************************************************************************)
(* Bounds and input sets                                                   *)
(***************************************************************************)
NumVideos == 2
MaxWorkers == 2
MaxVideosArg == 1

\* Scheduler inputs: w in -1..MaxWhole, u in 0..MaxUlps
MaxWhole == 8
MaxUlps == 12
MaxIntervalWhole == 3
MaxIntervalUlps == 2

\* Sampler inputs: --sample-dirs and --sample-images in -1..Max, --seed in 0..MaxSeed
MaxSampleDirs == 2
MaxSampleImages == 2
MaxSeed == 2

AllVideos == [i \in 1..NumVideos |-> i]

\* Durations and intervals of the batch runs
BatchDurations == {<<1, 0>>}
BatchIntervals == {Zero, <<1, 0>>}

\* --sample-dirs, --sample-images and --seed of the batch runs
BatchSampleDirs == 2
BatchSampleImages == 1
BatchSeed == 0

\* (duration, interval) pairs of the direct calls of convert_video
ConvertInputs ==
    {<<Zero, <<30, 0>>>>, <<<<95, 0>>, <<30, 0>>>>, <<<<2, 0>>, <<1, 0>>>>,
     <<<<3, 4>>, <<1, 1>>>>, <<<<2, 0>>, Zero>>, <<<<1, 0>>, <<2, 0>>>>}

\* (duration, interval) pairs of the direct calls of build_timestamps
SchedDurations == {x \in (-1..MaxWhole) \X (0..MaxUlps) : IsFloat(x)}
SchedIntervals ==
    {x \in (-1..MaxIntervalWhole) \X (0..MaxIntervalUlps) : IsFloat(x)}
SchedInputs ==
    (SchedDurations \X SchedIntervals) \cup {<<<<95, 0>>, <<30, 0>>>>}

(***************************************************************************)
(* State                                                                   *)
(***************************************************************************)
VARIABLES
    pc,             \* where main is: "setup", "collect", "summary", "qa", "exit";
                    \* "call" for a direct call of convert_video,
                    \* "sched" for a direct call of build_timestamps,
                    \* "sample" for direct calls of run_quality_sampling
    binaries_ok,    \* shutil.which finds ffmpeg and ffprobe
    input_ok,       \* input_dir exists and is a directory
    time_interval,  \* --time-interval
    workers,        \* --workers
    max_videos,     \* --max-videos
    discovered,     \* what discover_videos returns
    media,          \* the duration of each video file
    videos,         \* the videos submitted to the executor, in order
    job,            \* per video: the state of its convert_video call
    fs,             \* the frame files on disk: path -> "empty" | "nonempty"
    yielded,        \* the futures as_completed has yielded so far
    results,        \* main's results list
    console,        \* the per-video lines main has printed
    summary,        \* total_requested, total_written, failed_videos
    exit_code,      \* main's return value, -1 while it runs
    sched,          \* a direct call of build_timestamps and its result
    stem,           \* video_path.stem of each video
    sample_dirs,    \* --sample-dirs
    sample_images,  \* --sample-images
    seed,           \* --seed
    dirs,           \* the output directories that exist on disk
    qa,             \* the calls of run_quality_sampling made so far
    probed          \* what ffprobe has said of each image it was asked about

vars == <<pc, binaries_ok, input_ok, time_interval, workers, max_videos,
          discovered, media, videos, job, fs, yielded, results, console,
          summary, exit_code, sched, stem, sample_dirs, sample_images, seed,
          dirs, qa, probed>>

args == <<binaries_ok, input_ok, time_interval, workers, max_videos,
          discovered, media, stem, sample_dirs, sample_images, seed>>

\* What only run_quality_sampling changes
qastate == <<qa, probed>>

\* output_root / video_path.stem, or video_path.parent / video_path.stem:
\* two videos with the same stem (a.mp4 and a.mkv) get the same directory
output_dir(video_path) == <<"dir", stem[video_path]>>

VideoResult(video_path, requested, written, errs) ==
    [video_path       |-> video_path,
     output_dir       |-> output_dir(video_path),
     requested_frames |-> requested,
     written_frames   |-> written,
     errors           |-> errs]

NoDir == <<"dir", 0>>
NoResult ==
    [video_path |-> 0, output_dir |-> NoDir, requested_frames |-> 0,
     written_frames |-> 0, errors |-> <<>>]

NoSummary == [total_requested |-> 0, total_written |-> 0, failed_videos |-> <<>>]
NoSched == [duration_seconds |-> Zero, interval_seconds |-> Zero,
            returned |-> FALSE, raised |-> FALSE, value |-> <<>>]

\* A submitted convert_video call that has not started
NewJob ==
    [pc         |-> "pending",
     duration   |-> Zero,
     timestamps |-> <<>>,
     index      |-> 0,
     written    |-> 0,
     errors     |-> <<>>,
     attempts   |-> <<>>,
     result     |-> NoResult]


Range(seq) == {seq[i] : i \in DOMAIN seq}

NoFrame == <<"frame", 0, 0>>

\* One entry of a VideoResult's errors list
ErrorMessage(kind, frame) == [kind |-> kind, frame |-> frame]

\* The jobs a worker thread of the executor is running
Running == {v \in DOMAIN job :
                job[v].pc \in {"probing", "scheduling", "rendering", "renderingLast"}}

(***************************************************************************)
(* convert_video, one step at a time                                       *)
(***************************************************************************)
\* Mutant: a thread per submitted call, whatever max_workers is
StartJob_NoLimit(v) ==
    /\ pc \in {"collect", "call"}
    /\ job[v].pc = "pending"
    /\ \E mkdir_ok \in BOOLEAN :
          /\ job' = [job EXCEPT ![v].pc = IF mkdir_ok THEN "probing" ELSE "raised"]
          /\ dirs' = IF mkdir_ok THEN dirs \cup {output_dir(v)} ELSE dirs
    /\ UNCHANGED <<pc, args, videos, fs, yielded, results, console, summary,
                   exit_code, sched, qastate>>

\* A worker thread takes the next submitted call from the executor's queue
\* (or the caller calls convert_video directly) and it creates output_dir;
\* mkdir is outside the try blocks, so its OSError leaves convert_video.
StartJob(v) ==
    /\ pc \in {"collect", "call"}
    /\ job[v].pc = "pending"
    /\ \A i \in DOMAIN videos :
          videos[i] = v => \A j \in 1..(i - 1) : job[videos[j]].pc # "pending"
    /\ Cardinality(Running) < workers
    /\ \E mkdir_ok \in BOOLEAN :
          /\ job' = [job EXCEPT ![v].pc = IF mkdir_ok THEN "probing" ELSE "raised"]
          /\ dirs' = IF mkdir_ok THEN dirs \cup {output_dir(v)} ELSE dirs
    /\ UNCHANGED <<pc, args, videos, fs, yielded, results, console, summary,
                   exit_code, sched, qastate>>

\* Mutant: the early return reports one requested frame
FailedEarly_OneRequested(j, v, kind) ==
    [j EXCEPT !.pc = "done",
              !.result = VideoResult(v, 1, 0, <<ErrorMessage(kind, NoFrame)>>)]

\* except Exception as exc: return VideoResult(video_path, output_dir, 0, 0, [str(exc)])
FailedEarly(j, v, kind) ==
    [j EXCEPT !.pc = "done",
              !.result = VideoResult(v, 0, 0, <<ErrorMessage(kind, NoFrame)>>)]

\* Mutant: the last frame left out of the count
RequestedFrames_NoLastFrame(timestamps) == Len(timestamps)

\* len(timestamps) + 1, the third field of the returned VideoResult
RequestedFrames(timestamps) == Len(timestamps) + 1

\* Mutant: a failed render ends the loop
AfterAttempt_StopOnError(index, timestamps, rc) ==
    IF rc # 0 \/ index = Len(timestamps) THEN "renderingLast" ELSE "rendering"

\* Mutant: a failed render ends the job
AfterAttempt_ReturnOnError(index, timestamps, rc) ==
    IF rc # 0 THEN "done"
    ELSE IF index = Len(timestamps) THEN "renderingLast" ELSE "rendering"

\* Where the job goes after the try block of one render: the except clause
\* has swallowed the error, so the loop goes on to the next timestamp and,
\* after the last one, to the last frame
AfterAttempt(index, timestamps, rc) ==
    IF index = Len(timestamps) THEN "renderingLast" ELSE "rendering"

\* duration = probe_duration_seconds(video_path), or its RuntimeError
Probe(v) ==
    /\ job[v].pc = "probing"
    /\ \E probe_ok \in BOOLEAN :
          job' = [job EXCEPT ![v] =
                    IF probe_ok
                    THEN [@ EXCEPT !.pc = "scheduling", !.duration = media[v]]
                    ELSE FailedEarly(@, v, "probe")]
    /\ UNCHANGED <<pc, args, videos, fs, dirs, yielded, results, console, summary,
                   exit_code, sched, qastate>>

\* timestamps = build_timestamps(duration, interval_seconds), or its ValueError
Schedule(v) ==
    /\ job[v].pc = "scheduling"
    /\ LET r == build_timestamps(job[v].duration, time_interval)
       IN  job' = [job EXCEPT ![v] =
                    IF r.raised
                    THEN FailedEarly(@, v, "interval")
                    ELSE [@ EXCEPT !.pc = IF Len(r.value) = 0
                                          THEN "renderingLast" ELSE "rendering",
                                   !.timestamps = r.value,
                                   !.index = 1]]
    /\ UNCHANGED <<pc, args, videos, fs, dirs, yielded, results, console, summary,
                   exit_code, sched, qastate>>

\* Mutant: written += 1 as soon as the call returns, before the file check
AfterRender_CountsEveryReturn(j, files, frame_path, rc) ==
    IF rc = 0
    THEN IF FileWritten(files, frame_path)
         THEN [j EXCEPT !.written = @ + 1]
         ELSE [j EXCEPT !.written = @ + 1,
                        !.errors = Append(@, ErrorMessage("empty", frame_path[2]))]
    ELSE [j EXCEPT !.errors = Append(@, ErrorMessage("raised", frame_path[2]))]

\* The try block around one render: the frame counts as written when the
\* call returned and the file is there with content, else one error is added
AfterRender(j, files, frame_path, rc) ==
    IF rc = 0
    THEN IF FileWritten(files, frame_path)
         THEN [j EXCEPT !.written = @ + 1]
         ELSE [j EXCEPT !.errors = Append(@, ErrorMessage("empty", frame_path[2]))]
    ELSE [j EXCEPT !.errors = Append(@, ErrorMessage("raised", frame_path[2]))]

\* Two of the videos have the same stem
SameStem == \E v, w \in DOMAIN stem : v # w /\ stem[v] = stem[w]

\* The ffmpeg behaviours explored: all of them in a direct call of
\* convert_video and in the runs on two videos of the same stem, three of
\* them in the other batch runs (success, a zero exit code with an empty
\* file, a non-zero exit code with no file)
BatchOutcomes ==
    {[rc |-> 0, file |-> "nonempty"], [rc |-> 0, file |-> "empty"],
     [rc |-> 1, file |-> "missing"]}
Outcomes == IF pc = "call" \/ SameStem THEN RenderOutcomes ELSE BatchOutcomes

\* One iteration of the for loop over enumerate(timestamps, start=1)
Render(v) ==
    /\ job[v].pc = "rendering"
    /\ LET index      == job[v].index
           timestamp  == job[v].timestamps[index]
           frame_path == <<output_dir(v), output_frame_name(index, timestamp)>>
       IN  \E o \in Outcomes :
              /\ fs' = WriteFile(fs, frame_path, o.file)
              /\ job' = [job EXCEPT ![v] =
                    [AfterRender(@, fs', frame_path, o.rc) EXCEPT
                       !.attempts = Append(@, [kind |-> "frame", index |-> index,
                                               timestamp |-> timestamp,
                                               rc |-> o.rc, file |-> o.file]),
                       !.index = index + 1,
                       !.pc = AfterAttempt(index, job[v].timestamps, o.rc)]]
    /\ UNCHANGED <<pc, args, videos, yielded, results, console, summary,
                   exit_code, sched, qastate, dirs>>

\* extract_last_frame, its check, and the return of the VideoResult
RenderLast(v) ==
    /\ job[v].pc = "renderingLast"
    /\ LET index           == Len(job[v].timestamps) + 1
           last_frame_path == <<output_dir(v),
                                output_frame_name(index, job[v].duration)>>
       IN  \E o \in Outcomes :
              /\ fs' = WriteFile(fs, last_frame_path, o.file)
              /\ LET j == AfterRender(job[v], fs', last_frame_path, o.rc)
                 IN  job' = [job EXCEPT ![v] =
                        [j EXCEPT
                           !.attempts = Append(@, [kind |-> "last", index |-> index,
                                                   timestamp |-> job[v].duration,
                                                   rc |-> o.rc, file |-> o.file]),
                           !.result = VideoResult(v, RequestedFrames(job[v].timestamps),
                                                  j.written, j.errors),
                           !.pc = "done"]]
    /\ UNCHANGED <<pc, args, videos, yielded, results, console, summary,
                   exit_code, sched, qastate, dirs>>

(***************************************************************************)
(* main                                                                    *)
(***************************************************************************)
\* The checks that return 2
SetupFails ==
    /\ pc = "setup"
    /\ \/ ~binaries_ok
       \/ ~input_ok
       \/ FloatLeqZero(time_interval)
       \/ workers <= 0
    /\ pc' = "exit"
    /\ exit_code' = 2
    /\ UNCHANGED <<args, videos, job, fs, dirs, yielded, results, console, summary, sched, qastate>>

\* videos = discover_videos(...); if max_videos > 0: videos = videos[:max_videos]
CappedVideos ==
    IF max_videos > 0 /\ max_videos < Len(discovered)
    THEN SubSeq(discovered, 1, max_videos)
    ELSE discovered

SetupPasses ==
    /\ pc = "setup"
    /\ binaries_ok /\ input_ok
    /\ ~FloatLeqZero(time_interval)
    /\ workers > 0
    /\ IF CappedVideos = <<>>
       THEN /\ pc' = "exit"
            /\ exit_code' = 0
            /\ UNCHANGED <<videos, job>>
       ELSE /\ pc' = "collect"
            /\ videos' = CappedVideos
            /\ job' = [v \in Range(CappedVideos) |-> NewJob]
            /\ UNCHANGED exit_code
    /\ UNCHANGED <<args, fs, dirs, yielded, results, console, summary, sched, qastate>>

\* Mutant: the exception of a job leaves main (no try around future.result())
Collect_AbortOnException(v) ==
    /\ pc = "collect"
    /\ v \in Range(videos) \ yielded
    /\ job[v].pc \in {"done", "raised"}
    /\ yielded' = yielded \cup {v}
    /\ IF job[v].pc = "raised"
       THEN /\ pc' = "exit"
            /\ exit_code' = 1
            /\ UNCHANGED <<results, console>>
       ELSE /\ results' = Append(results, job[v].result)
            /\ console' = Append(console,
                  [status     |-> IF job[v].result.errors = <<>>
                                     /\ job[v].result.written_frames
                                            = job[v].result.requested_frames
                                  THEN "OK" ELSE "WARN",
                   video_path |-> v])
            /\ UNCHANGED <<pc, exit_code>>
    /\ UNCHANGED <<args, videos, job, fs, dirs, summary, sched, qastate>>

\* Mutant: a video that wrote at least one frame is printed as OK
Collect_OkWhenAnyWritten(v) ==
    /\ pc = "collect"
    /\ v \in Range(videos) \ yielded
    /\ job[v].pc \in {"done", "raised"}
    /\ yielded' = yielded \cup {v}
    /\ IF job[v].pc = "raised"
       THEN /\ console' = Append(console, [status |-> "FAIL", video_path |-> v])
            /\ UNCHANGED results
       ELSE LET result == job[v].result
            IN  /\ results' = Append(results, result)
                /\ console' = Append(console,
                      [status     |-> IF result.written_frames > 0
                                      THEN "OK" ELSE "WARN",
                       video_path |-> result.video_path])
    /\ UNCHANGED <<pc, args, videos, job, fs, dirs, summary, exit_code, sched, qastate>>

\* One iteration of the loop over as_completed(future_map)
Collect(v) ==
    /\ pc = "collect"
    /\ v \in Range(videos) \ yielded
    /\ job[v].pc \in {"done", "raised"}
    /\ yielded' = yielded \cup {v}
    /\ IF job[v].pc = "raised"
       THEN /\ console' = Append(console, [status |-> "FAIL", video_path |-> v])
            /\ UNCHANGED results
       ELSE LET result == job[v].result
            IN  /\ results' = Append(results, result)
                /\ console' = Append(console,
                      [status     |-> IF result.errors = <<>>
                                         /\ result.written_frames = result.requested_frames
                                      THEN "OK" ELSE "WARN",
                       video_path |-> result.video_path])
    /\ UNCHANGED <<pc, args, videos, job, fs, dirs, summary, exit_code, sched, qastate>>

RECURSIVE SumOver(_, _)
SumOver(seq, field) ==
    IF seq = <<>> THEN 0 ELSE Head(seq)[field] + SumOver(Tail(seq), field)

\* Mutant: only the videos that wrote nothing are listed
HasIssues_ZeroWritten(res) == res.written_frames = 0

\* failed_videos = [res for res in results if res.written_frames == 0 or res.errors]
HasIssues(res) == res.written_frames = 0 \/ res.errors # <<>>

\* Mutant: the executor left without waiting for its jobs
\* (shutdown(wait=False) and a loop that stops early)
Summary_NoWait ==
    /\ pc = "collect"
    /\ summary' = [total_requested |-> SumOver(results, "requested_frames"),
                   total_written   |-> SumOver(results, "written_frames"),
                   failed_videos   |-> SelectSeq(results, HasIssues)]
    /\ pc' = "summary"
    /\ UNCHANGED <<args, videos, job, fs, dirs, yielded, results, console, exit_code, sched, qastate>>

\* The executor has shut down; the totals and failed_videos
Summary ==
    /\ pc = "collect"
    /\ yielded = Range(videos)
    /\ summary' = [total_requested |-> SumOver(results, "requested_frames"),
                   total_written   |-> SumOver(results, "written_frames"),
                   failed_videos   |-> SelectSeq(results, HasIssues)]
    /\ pc' = "summary"
    /\ UNCHANGED <<args, videos, job, fs, dirs, yielded, results, console, exit_code, sched, qastate>>

(***************************************************************************)
(* run_quality_sampling                                                    *)
(***************************************************************************)
\* random.Random(seed) is a deterministic generator: its state after
\* seeding is a function of the seed and every draw is a function of the
\* state.  The model keeps that and nothing else of the Mersenne Twister:
\* a full-period congruential generator on RngModulus states.
RngModulus == 8
Seeded(s) == s % RngModulus
RngNext(state) == (5 * state + 3) % RngModulus

\* rng.sample(population, k) on a short list: k draws, each taking
\* pool[j] for j = randbelow(n - i) and moving the last live element of
\* the pool into slot j
RECURSIVE SampleLoop(_, _, _, _)
SampleLoop(pool, result, k, state) ==
    IF Len(result) = k
    THEN [raised |-> FALSE, value |-> result, state |-> state]
    ELSE LET n    == Len(pool)
             next == RngNext(state)
             j    == (next % n) + 1
         IN  SampleLoop(SubSeq([pool EXCEPT ![j] = pool[n]], 1, n - 1),
                        Append(result, pool[j]), k, next)

\* ValueError("Sample larger than population or is negative")
rng_sample(population, k, state) ==
    IF k < 0 \/ k > Len(population)
    THEN [raised |-> TRUE, value |-> <<>>, state |-> state]
    ELSE SampleLoop(population, <<>>, k, state)

Min(a, b) == IF a < b THEN a ELSE b

\* The *.jpg files of a folder, whatever their size
FilesIn(files, folder) == {p \in DOMAIN files : p[1] = folder}

\* The orders in which folder.glob("*.jpg") can yield the files of a folder
GlobOrders(S) ==
    {f \in [1..Cardinality(S) -> S] : \A i, j \in DOMAIN f : f[i] = f[j] => i = j}

\* One listing order for each folder of D
Listings(files, D) ==
    {l \in [D -> UNION {GlobOrders(FilesIn(files, d)) : d \in D}] :
        \A d \in D : Range(l[d]) = FilesIn(files, d)}

\* Path order inside one folder: frame_<index 6 digits>_t<seconds>.jpg
PathLess(p, q) ==
    \/ p[2][2] < q[2][2]
    \/ (p[2][2] = q[2][2] /\ p[2][3] < q[2][3])

\* Mutant: the listing used in the order glob yields it
SortedImages_GlobOrder(listed) == listed

\* images = sorted(folder.glob("*.jpg"))
RECURSIVE SortedImages(_)
SortedImages(listed) ==
    IF listed = <<>>
    THEN <<>>
    ELSE LET least == CHOOSE p \in Range(listed) :
                          \A q \in Range(listed) : q = p \/ PathLess(p, q)
         IN  <<least>> \o SortedImages(SelectSeq(listed, LAMBDA q : q # least))

\* What run_quality_sampling has done and will return
NoReport ==
    [raised        |-> FALSE,
     candidate_dirs |-> <<>>,
     chosen_dirs   |-> <<>>,
     visits        |-> <<>>,
     validated     |-> <<>>,
     checked       |-> 0,
     passed        |-> 0,
     messages      |-> <<>>]

Message(status, folder, image) ==
    [status |-> status, folder |-> folder, image |-> image]

\* One folder of the loop, as the loop left it
Visit(folder, images, chosen_images, report) ==
    [folder |-> folder, images |-> images, chosen_images |-> chosen_images,
     checked |-> report.checked, passed |-> report.passed]

\* Mutant: an empty folder counted as one checked image
EmptyFolder_Counted(report, folder) ==
    LET after == [report EXCEPT
                     !.checked = @ + 1,
                     !.messages = Append(@, Message("WARN", folder, NoFrame))]
    IN  [after EXCEPT !.visits = Append(@, Visit(folder, <<>>, <<>>, after))]

\* if not images: messages.append("[WARN] No JPG images found ..."); continue
EmptyFolder(report, folder) ==
    LET after == [report EXCEPT
                     !.messages = Append(@, Message("WARN", folder, NoFrame))]
    IN  [after EXCEPT !.visits = Append(@, Visit(folder, <<>>, <<>>, after))]

\* validate_jpg(image_path): what ffprobe says of the file
validate_jpg(verdict, image_path) == verdict[image_path]

\* for image_path in chosen_images: checked += 1; ok, detail = validate_jpg(...)
RECURSIVE ValidateImages(_, _, _)
ValidateImages(report, chosen_images, verdict) ==
    IF chosen_images = <<>>
    THEN report
    ELSE LET image_path == Head(chosen_images)
             ok == validate_jpg(verdict, image_path)
         IN  ValidateImages(
                 [report EXCEPT
                     !.checked = @ + 1,
                     !.validated = Append(@, image_path),
                     !.passed = IF ok THEN @ + 1 ELSE @,
                     !.messages = Append(@, Message(IF ok THEN "OK" ELSE "FAIL",
                                                    image_path[1], image_path[2]))],
                 Tail(chosen_images), verdict)

\* for folder in chosen_dirs: ...
RECURSIVE SampleFolders(_, _, _, _, _, _)
SampleFolders(report, chosen_dirs, sample_images_per_dir, state, listing, verdict) ==
    IF chosen_dirs = <<>>
    THEN report
    ELSE LET folder == Head(chosen_dirs)
             images == SortedImages(listing[folder])
         IN  IF images = <<>>
             THEN SampleFolders(EmptyFolder(report, folder), Tail(chosen_dirs),
                                sample_images_per_dir, state, listing, verdict)
             ELSE LET chosen_images ==
                          rng_sample(images,
                                     Min(sample_images_per_dir, Len(images)), state)
                      after == ValidateImages(report, chosen_images.value, verdict)
                  IN  IF chosen_images.raised
                      THEN [report EXCEPT !.raised = TRUE]
                      ELSE SampleFolders(
                               [after EXCEPT !.visits =
                                   Append(@, Visit(folder, images,
                                                   chosen_images.value, after))],
                               Tail(chosen_dirs), sample_images_per_dir,
                               chosen_images.state, listing, verdict)

\* candidate_dirs = [res.output_dir for res in results
\*                   if res.written_frames > 0 and res.output_dir.exists()]
RECURSIVE CandidateDirs(_, _)
CandidateDirs(res_list, existing) ==
    IF res_list = <<>>
    THEN <<>>
    ELSE (IF Head(res_list).written_frames > 0
             /\ Head(res_list).output_dir \in existing
          THEN <<Head(res_list).output_dir>>
          ELSE <<>>) \o CandidateDirs(Tail(res_list), existing)

\* run_quality_sampling(results, sample_dirs, sample_images_per_dir, seed)
\* on a disk with the directories `existing`, where glob yields the files
\* in the orders `listing` and ffprobe gives the verdicts `verdict`
run_quality_sampling(res_list, n_dirs, sample_images_per_dir, sd, existing, listing, verdict) ==
    LET candidate_dirs == CandidateDirs(res_list, existing)
        chosen_dirs == rng_sample(candidate_dirs,
                                  Min(n_dirs, Len(candidate_dirs)), Seeded(sd))
    IN  IF candidate_dirs = <<>>
        THEN [NoReport EXCEPT !.messages = <<Message("NONE", NoDir, NoFrame)>>]
        ELSE IF chosen_dirs.raised
        THEN [NoReport EXCEPT !.raised = TRUE, !.candidate_dirs = candidate_dirs]
        ELSE SampleFolders([NoReport EXCEPT !.candidate_dirs = candidate_dirs,
                                            !.chosen_dirs = chosen_dirs.value],
                           chosen_dirs.value, sample_images_per_dir,
                           chosen_dirs.state, listing, verdict)

\* The folders a call lists with glob
Listed ==
    Range(rng_sample(CandidateDirs(results, dirs),
                     Min(sample_dirs, Len(CandidateDirs(results, dirs))),
                     Seeded(seed)).value)

\* The verdicts ffprobe can give on the images `asked`: an empty file is
\* never a JPEG, and a file it has judged before gets the same verdict
\* (its content has not changed)
Verdicts(asked) ==
    {[p \in DOMAIN fs |-> p \in ok] :
        ok \in {s \in SUBSET asked :
                   \A p \in asked :
                      /\ fs[p] = "empty" => p \notin s
                      /\ p \in DOMAIN probed => (p \in s <=> probed[p])}}

\* The images a call would hand to validate_jpg (the selection does not
\* depend on the verdicts)
Asked(listing) ==
    Range(run_quality_sampling(results, sample_dirs, sample_images, seed, dirs,
                               listing, [p \in DOMAIN fs |-> FALSE]).validated)

\* The verdicts heard so far
Probed(report, verdict) ==
    [p \in DOMAIN probed \cup Range(report.validated) |->
        IF p \in DOMAIN probed THEN probed[p] ELSE verdict[p]]

\* checked, passed, messages = run_quality_sampling(results, args.sample_dirs,
\*                                 args.sample_images, args.seed), in main;
\* its ValueError leaves main
QualitySampling ==
    /\ pc = "summary"
    /\ \E listing \in Listings(fs, Listed) :
       \E verdict \in Verdicts(Asked(listing)) :
          LET report == run_quality_sampling(results, sample_dirs, sample_images,
                                             seed, dirs, listing, verdict)
          IN  /\ qa' = Append(qa, report)
              /\ probed' = Probed(report, verdict)
              /\ IF report.raised
                 THEN pc' = "exit" /\ exit_code' = 1
                 ELSE pc' = "qa" /\ UNCHANGED exit_code
    /\ UNCHANGED <<args, videos, job, fs, dirs, yielded, results, console, summary,
                   sched>>

\* Mutant: the images that fail validation removed from the folder
CallQualitySampling_RemovesFailed ==
    /\ pc = "sample"
    /\ Len(qa) < 2
    /\ \E listing \in Listings(fs, Listed) :
       \E verdict \in Verdicts(Asked(listing)) :
          LET report == run_quality_sampling(results, sample_dirs, sample_images,
                                             seed, dirs, listing, verdict)
          IN  /\ qa' = Append(qa, report)
              /\ probed' = Probed(report, verdict)
              /\ fs' = [p \in {q \in DOMAIN fs :
                                  q \in Range(report.validated) => verdict[q]} |-> fs[p]]
    /\ UNCHANGED <<pc, args, videos, job, dirs, yielded, results, console,
                   summary, exit_code, sched>>

\* A direct call of run_quality_sampling, followed by a second one with
\* the same arguments
CallQualitySampling ==
    /\ pc = "sample"
    /\ Len(qa) < 2
    /\ \E listing \in Listings(fs, Listed) :
       \E verdict \in Verdicts(Asked(listing)) :
          LET report == run_quality_sampling(results, sample_dirs, sample_images,
                                             seed, dirs, listing, verdict)
          IN  /\ qa' = Append(qa, report)
              /\ probed' = Probed(report, verdict)
    /\ UNCHANGED <<pc, args, videos, job, fs, dirs, yielded, results, console,
                   summary, exit_code, sched>>

\* Mutant: a sampled image that fails validation fails the run
Return_FailOnSample ==
    /\ pc = "qa"
    /\ exit_code' = IF summary.failed_videos # <<>>
                        \/ qa[Len(qa)].passed < qa[Len(qa)].checked
                     THEN 1 ELSE 0
    /\ pc' = "exit"
    /\ UNCHANGED <<args, videos, job, fs, dirs, yielded, results, console, summary, sched, qastate>>

\* return 1 if failed_videos else 0
Return ==
    /\ pc = "qa"
    /\ exit_code' = IF summary.failed_videos # <<>> THEN 1 ELSE 0
    /\ pc' = "exit"
    /\ UNCHANGED <<args, videos, job, fs, dirs, yielded, results, console, summary, sched, qastate>>

(***************************************************************************)
(* Specifications                                                          *)
(***************************************************************************)
Idle ==
    /\ videos = <<>>
    /\ job = <<>>
    /\ fs = <<>>
    /\ yielded = {}
    /\ results = <<>>
    /\ console = <<>>
    /\ summary = NoSummary
    /\ exit_code = -1
    /\ dirs = {}
    /\ qa = <<>>
    /\ probed = <<>>

\* A run of main
Init ==
    /\ pc = "setup"
    /\ binaries_ok \in BOOLEAN
    /\ input_ok \in BOOLEAN
    /\ time_interval \in BatchIntervals
    /\ workers \in 0..MaxWorkers
    /\ max_videos \in 0..MaxVideosArg
    /\ discovered \in {SubSeq(AllVideos, 1, n) : n \in 0..NumVideos}
    /\ media \in [1..NumVideos -> BatchDurations]
    /\ stem = [v \in 1..NumVideos |-> v]
    /\ sample_dirs = BatchSampleDirs
    /\ sample_images = BatchSampleImages
    /\ seed = BatchSeed
    /\ sched = NoSched
    /\ Idle

JobStep(v) ==
    \/ StartJob(v)
    \/ Probe(v)
    \/ Schedule(v)
    \/ Render(v)
    \/ RenderLast(v)

Next ==
    \/ SetupFails
    \/ SetupPasses
    \/ \E v \in DOMAIN job : JobStep(v)
    \/ \E v \in DOMAIN job : Collect(v)
    \/ Summary
    \/ QualitySampling
    \/ Return

Spec == Init /\ [][Next]_vars

\* The call of run_quality_sampling returns.  The sampler is a terminating
\* computation on every input, so QualitySampling is enabled exactly in the
\* states with pc = "summary"; this step has the same enabling condition
\* and none of the sampler's computation, and fairness is stated on it:
\* main does not stay for ever at the call.
SamplerReturns ==
    /\ pc = "summary"
    /\ pc' = "qa"
    /\ UNCHANGED <<args, videos, job, fs, dirs, yielded, results, console, summary,
                   exit_code, sched, qastate>>

\* A run of main in which every collaborator call returns and every thread
\* is scheduled: a worker thread that can take or continue a job does so,
\* and the main thread goes on when its next statement can run
FairSpec ==
    /\ Spec
    /\ WF_vars(SetupFails \/ SetupPasses)
    /\ \A v \in 1..NumVideos : WF_vars(v \in DOMAIN job /\ JobStep(v))
    /\ \A v \in 1..NumVideos : WF_vars(v \in DOMAIN job /\ Collect(v))
    /\ WF_vars(Summary)
    /\ WF_vars(SamplerReturns)
    /\ WF_vars(Return)

\* A run of main on an input tree with two videos of the same stem (a.mp4
\* and a.mkv in one directory, or x/a.mp4 and y/a.mp4 with --recursive and
\* --output-dir)
InitShared ==
    /\ pc = "setup"
    /\ binaries_ok = TRUE
    /\ input_ok = TRUE
    /\ time_interval \in BatchIntervals
    /\ workers \in 1..2
    /\ max_videos = 0
    /\ discovered = <<1, 2>>
    /\ media \in [1..2 -> BatchDurations]
    /\ stem = [v \in 1..2 |-> 1]
    /\ sample_dirs = BatchSampleDirs
    /\ sample_images = BatchSampleImages
    /\ seed = BatchSeed
    /\ sched = NoSched
    /\ Idle

SpecShared == InitShared /\ [][Next]_vars

\* A direct call convert_video(video_path, interval_seconds, output_root)
InitConvert ==
    /\ pc = "call"
    /\ binaries_ok = TRUE
    /\ input_ok = TRUE
    /\ workers = 1
    /\ max_videos = 0
    /\ discovered = <<1>>
    /\ \E in \in ConvertInputs :
          /\ media = [v \in {1} |-> in[1]]
          /\ time_interval = in[2]
    /\ videos = <<1>>
    /\ job = [v \in {1} |-> NewJob]
    /\ fs = <<>>
    /\ yielded = {}
    /\ results = <<>>
    /\ console = <<>>
    /\ summary = NoSummary
    /\ exit_code = -1
    /\ sched = NoSched
    /\ stem = [v \in {1} |-> 1]
    /\ sample_dirs = BatchSampleDirs
    /\ sample_images = BatchSampleImages
    /\ seed = BatchSeed
    /\ dirs = {}
    /\ qa = <<>>
    /\ probed = <<>>

NextConvert == \E v \in DOMAIN job : JobStep(v)

SpecConvert == InitConvert /\ [][NextConvert]_vars

\* A direct call build_timestamps(duration_seconds, interval_seconds)
InitSched ==
    /\ pc = "sched"
    /\ binaries_ok = TRUE
    /\ input_ok = TRUE
    /\ time_interval = Zero
    /\ workers = 1
    /\ max_videos = 0
    /\ discovered = <<>>
    /\ media = <<>>
    /\ stem = <<>>
    /\ sample_dirs = BatchSampleDirs
    /\ sample_images = BatchSampleImages
    /\ seed = BatchSeed
    /\ \E in \in SchedInputs :
          sched = [NoSched EXCEPT !.duration_seconds = in[1],
                                  !.interval_seconds = in[2]]
    /\ Idle

CallBuildTimestamps ==
    /\ pc = "sched"
    /\ ~sched.returned
    /\ LET r == build_timestamps(sched.duration_seconds, sched.interval_seconds)
       IN  sched' = [sched EXCEPT !.returned = TRUE,
                                  !.raised = r.raised,
                                  !.value = r.value]
    /\ UNCHANGED <<pc, args, videos, job, fs, dirs, yielded, results, console,
                   summary, exit_code, qastate>>

NextSched == CallBuildTimestamps

SpecSched == InitSched /\ [][NextSched]_vars

\* Direct calls run_quality_sampling(results, sample_dirs,
\* sample_images_per_dir, seed).  The results are what convert_video
\* returns for one or two videos (two frames requested, both or none
\* written); the two videos have different stems or the same stem; each
\* output directory is missing or holds no, one or two frame files.
SampleStems == {[v \in 1..2 |-> v], [v \in 1..2 |-> 1]}
SampleFrames == <<output_frame_name(1, Zero), output_frame_name(2, <<1, 0>>)>>
SampleErrors ==
    <<ErrorMessage("frame", SampleFrames[1]), ErrorMessage("last", SampleFrames[2])>>
SampleResult(v, written) ==
    VideoResult(v, 2, written, IF written = 2 THEN <<>> ELSE SampleErrors)
SampleResults ==
    {<<>>}
        \cup {<<SampleResult(1, w)>> : w \in {0, 2}}
        \cup {<<SampleResult(a, w[1]), SampleResult(3 - a, w[2])>> :
                 a \in 1..2, w \in {0, 2} \X {0, 2}}
SampleFolderContents ==
    {<<>>,
     [n \in {SampleFrames[1]} |-> "nonempty"],
     [n \in Range(SampleFrames) |-> IF n = SampleFrames[1] THEN "nonempty" ELSE "empty"],
     [n \in Range(SampleFrames) |-> "nonempty"]}
SampleDisk(existing, content) ==
    [p \in UNION {{<<d, n>> : n \in DOMAIN content[d]} : d \in existing} |->
        content[p[1]][p[2]]]

InitSample ==
    /\ pc = "sample"
    /\ binaries_ok = TRUE
    /\ input_ok = TRUE
    /\ time_interval = <<1, 0>>
    /\ workers = 1
    /\ max_videos = 0
    /\ discovered = <<>>
    /\ media = <<>>
    /\ stem \in SampleStems
    /\ sample_dirs \in -1..MaxSampleDirs
    /\ sample_images \in -1..MaxSampleImages
    /\ seed \in 0..MaxSeed
    /\ videos = <<>>
    /\ job = <<>>
    /\ yielded = {}
    /\ console = <<>>
    /\ summary = NoSummary
    /\ exit_code = -1
    /\ sched = NoSched
    /\ results \in SampleResults
    /\ dirs \in SUBSET {output_dir(v) : v \in 1..2}
    /\ \E content \in [dirs -> SampleFolderContents] : fs = SampleDisk(dirs, content)
    /\ qa = <<>>
    /\ probed = <<>>

NextSample == CallQualitySampling

SpecSample == InitSample /\ [][NextSample]_vars


(***************************************************************************)
(* Properties                                                              *)
(***************************************************************************)
\* k * x in exact arithmetic (the result need not be a binary64 value)
ExactMultiple(k, x) == <<k * x[1], k * x[2]>>

\* k * x as binary64 computes it
FloatMultiple(k, x) ==
    <<k * x[1], RoundTiesEven(k * x[2], Quantum(k * x[1]))>>

\* 0 followed by the multiples Mul(k, interval), k = 1, 2, ..., below duration
MultiplesBelow(duration, interval, Mul(_, _)) ==
    LET K == {k \in 1..(duration[1] + 1) : FloatLess(Mul(k, interval), duration)}
    IN  [n \in 1..(Cardinality(K) + 1) |->
            IF n = 1 THEN Zero ELSE Mul(n - 1, interval)]

StrictlyIncreasing(seq) ==
    \A n \in 1..(Len(seq) - 1) : FloatLess(seq[n], seq[n + 1])

\* seq is 0 followed by one value per multiple k * interval below duration,
\* each the multiple up to the rounding of the float additions
IsMultiplesBelow(seq, duration, interval, Mul(_, _)) ==
    /\ Len(seq) = Len(MultiplesBelow(duration, interval, Mul))
    /\ seq[1] = Zero
    /\ \A n \in 2..Len(seq) : seq[n][1] = (n - 1) * interval[1]

\* C1: for interval > 0, build_timestamps returns exactly 0 followed by
\* every multiple k*interval (k = 1, 2, ...) strictly below duration, one
\* value per multiple (the multiples read exactly, or as float products),
\* strictly increasing, first 0, last < duration; [0.0] for duration <= 0;
\* 95 s at interval 30 gives [0, 30, 60, 90].
C1_ExactlyTheMultiples ==
    (sched.returned /\ ~sched.raised) =>
        LET d == sched.duration_seconds
            i == sched.interval_seconds
            t == sched.value
        IN  /\ FloatLeqZero(d) => t = <<Zero>>
            /\ ~FloatLeqZero(d) =>
                  /\ \/ IsMultiplesBelow(t, d, i, ExactMultiple)
                     \/ IsMultiplesBelow(t, d, i, FloatMultiple)
                  /\ StrictlyIncreasing(t)
                  /\ t[1] = Zero
                  /\ FloatLess(t[Len(t)], d)
            /\ (d = <<95, 0>> /\ i = <<30, 0>>) =>
                  t = <<Zero, <<30, 0>>, <<60, 0>>, <<90, 0>>>>


\* convert_video has returned a VideoResult for v
Done(v) == job[v].pc = "done"

\* The probe and the schedule of v have succeeded
Scheduled(v) == job[v].index > 0

\* The attempts of v that are the last-frame render
LastAttempts(v) == SelectSeq(job[v].attempts, LAMBDA a : a.kind = "last")

\* The frame file an attempt was asked to write
AttemptName(a) == output_frame_name(a.index, a.timestamp)
AttemptPath(v, a) == <<output_dir(v), AttemptName(a)>>

\* A render that returned and left a file with content
Succeeded(a) == a.rc = 0 /\ a.file = "nonempty"
FailedAttempts(v) == SelectSeq(job[v].attempts, LAMBDA a : ~Succeeded(a))

\* C2: every VideoResult returned by convert_video has
\* written_frames <= requested_frames.
C2_WrittenAtMostRequested ==
    \A v \in DOMAIN job :
        Done(v) => job[v].result.written_frames <= job[v].result.requested_frames

\* All five frames of the 95-second video written: written = requested
C2_Witness ==
    \E v \in DOMAIN job :
        /\ Done(v)
        /\ job[v].result.requested_frames = 5
        /\ job[v].result.written_frames = 5

\* C3: once probe and schedule have succeeded, every scheduled timestamp is
\* attempted exactly once, in ascending order, and the last-frame render is
\* attempted after all of them, whichever of the earlier renders failed.
C3_EveryTimestampAttemptedInOrder ==
    \A v \in DOMAIN job :
        Scheduled(v) =>
            LET a == job[v].attempts
                t == job[v].timestamps
                n == Len(job[v].timestamps)
            IN  /\ StrictlyIncreasing(t)
                /\ Len(a) <= n + 1
                /\ \A k \in 1..Len(a) :
                      IF k <= n
                      THEN a[k].kind = "frame" /\ a[k].index = k /\ a[k].timestamp = t[k]
                      ELSE a[k].kind = "last"
                /\ job[v].pc = "rendering" => Len(a) < n
                /\ job[v].pc = "renderingLast" => Len(a) = n
                /\ Done(v) => Len(a) = n + 1

\* The first two of four scheduled renders failed and all five were attempted
C3_Witness ==
    \E v \in DOMAIN job :
        /\ Done(v)
        /\ Len(job[v].timestamps) = 4
        /\ Len(job[v].attempts) = 5
        /\ job[v].attempts[1].rc # 0
        /\ job[v].attempts[2].rc # 0

\* C4 as stated: for every video handed to convert_video the last-frame
\* render is attempted exactly once before the job reaches Done.
C4_LastFrameAlwaysAttempted ==
    \A v \in DOMAIN job : Done(v) => Len(LastAttempts(v)) = 1

\* C4 amended: for every video whose probe and schedule succeeded the
\* last-frame render is attempted exactly once before the job reaches Done,
\* as its final attempt and whatever the scheduler returned; it is never
\* attempted twice, and not at all when the probe or the schedule failed.
C4_LastFrameOnceAfterSchedule ==
    \A v \in DOMAIN job :
        /\ Len(LastAttempts(v)) <= 1
        /\ (Done(v) /\ Scheduled(v)) =>
              /\ Len(LastAttempts(v)) = 1
              /\ job[v].attempts[Len(job[v].attempts)].kind = "last"
        /\ ~Done(v) => LastAttempts(v) = <<>>
        /\ ~Scheduled(v) => LastAttempts(v) = <<>>

\* A zero-length video: the scheduler returned [0.0], that render failed
\* and the last frame was attempted once
C4_Witness ==
    \E v \in DOMAIN job :
        /\ Done(v)
        /\ job[v].timestamps = <<Zero>>
        /\ job[v].attempts[1].rc # 0
        /\ Len(LastAttempts(v)) = 1

\* C5: when the probe or the schedule fails, convert_video goes straight to
\* Done: no render is attempted and the VideoResult has requested_frames = 0,
\* written_frames = 0 and exactly one error message.
C5_EarlyFailureShortCircuits ==
    \A v \in DOMAIN job :
        /\ job[v].pc \in {"rendering", "renderingLast"} => Scheduled(v)
        /\ (Done(v) /\ ~Scheduled(v)) =>
              /\ job[v].attempts = <<>>
              /\ \A p \in DOMAIN fs : p[1] # output_dir(v)
              /\ job[v].result.requested_frames = 0
              /\ job[v].result.written_frames = 0
              /\ Len(job[v].result.errors) = 1
              /\ job[v].result.errors[1].kind \in {"probe", "interval"}
        /\ (Done(v) /\ Scheduled(v)) =>
              \A k \in DOMAIN job[v].result.errors :
                  job[v].result.errors[k].kind \in {"empty", "raised"}

\* build_timestamps raised on a non-positive interval and the job is Done
C5_Witness ==
    \E v \in DOMAIN job :
        /\ Done(v)
        /\ job[v].result.errors = <<ErrorMessage("interval", NoFrame)>>
        /\ job[v].duration = media[v]

\* C6 as stated: every VideoResult returned by convert_video has
\* requested_frames = |schedule(duration, interval)| + 1.
C6_RequestedIsScheduleLengthPlusOne ==
    \A v \in DOMAIN job :
        Done(v) =>
            job[v].result.requested_frames
                = Len(build_timestamps(media[v], time_interval).value) + 1

\* C6 amended: every VideoResult returned after a successful probe and
\* schedule has requested_frames = |schedule(duration, interval)| + 1 (2 for
\* a 0-second video, 5 for 95 seconds at interval 30); a VideoResult
\* returned after a failed probe or schedule has requested_frames = 0.
C6_RequestedAfterSchedule ==
    \A v \in DOMAIN job :
        Done(v) =>
            IF Scheduled(v)
            THEN /\ job[v].result.requested_frames
                        = Len(build_timestamps(media[v], time_interval).value) + 1
                 /\ media[v] = Zero => job[v].result.requested_frames = 2
                 /\ (media[v] = <<95, 0>> /\ time_interval = <<30, 0>>)
                        => job[v].result.requested_frames = 5
            ELSE job[v].result.requested_frames = 0

\* The 0-second video is Done with two requested frames
C6_Witness ==
    \E v \in DOMAIN job :
        /\ Done(v)
        /\ media[v] = Zero
        /\ job[v].timestamps = <<Zero>>
        /\ job[v].result.requested_frames = 2

\* C7: after a successful probe and schedule each attempted frame adds
\* exactly one to written_frames or exactly one message to errors: with k
\* failed renders, written_frames = requested_frames - k and errors has
\* exactly k entries.
C7_OneCountOrOneErrorPerAttempt ==
    \A v \in DOMAIN job :
        Scheduled(v) =>
            LET k == Len(FailedAttempts(v))
            IN  /\ job[v].written + Len(job[v].errors) = Len(job[v].attempts)
                /\ Len(job[v].errors) = k
                /\ Done(v) =>
                      /\ job[v].result.written_frames
                            = job[v].result.requested_frames - k
                      /\ Len(job[v].result.errors) = k

\* One failure among five requested: the render at 60 s failed, written = 4
\* and the one error names that frame
C7_Witness ==
    \E v \in DOMAIN job :
        /\ Done(v)
        /\ job[v].result.requested_frames = 5
        /\ job[v].result.written_frames = 4
        /\ job[v].attempts[3].rc # 0
        /\ job[v].result.errors
              = <<ErrorMessage("raised", output_frame_name(3, <<60, 0>>))>>

\* C8: a frame is counted in written_frames only if its render call returned
\* without error and its output file exists with non-zero size; a call that
\* returned and left the file missing or empty is recorded as an error and
\* not counted.
C8_WrittenOnlyIfFileHasContent ==
    \A v \in DOMAIN job :
        Scheduled(v) =>
            LET a == job[v].attempts
                counted == {k \in DOMAIN a :
                               /\ a[k].rc = 0
                               /\ AttemptPath(v, a[k]) \in DOMAIN fs
                               /\ fs[AttemptPath(v, a[k])] = "nonempty"}
                blank == {k \in DOMAIN a :
                               /\ a[k].rc = 0
                               /\ \/ AttemptPath(v, a[k]) \notin DOMAIN fs
                                  \/ fs[AttemptPath(v, a[k])] = "empty"}
            IN  /\ job[v].written = Cardinality(counted)
                /\ \A k \in blank :
                      \E e \in DOMAIN job[v].errors :
                          job[v].errors[e] = ErrorMessage("empty", AttemptName(a[k]))
                /\ Cardinality(blank)
                      = Len(SelectSeq(job[v].errors, LAMBDA e : e.kind = "empty"))

\* ffmpeg exited with code zero three times, leaving an empty file, no file
\* and a file with content: one frame written, two errors
C8_Witness ==
    \E v \in DOMAIN job :
        /\ Done(v)
        /\ Len(job[v].attempts) = 3
        /\ job[v].attempts[1].rc = 0 /\ job[v].attempts[1].file = "empty"
        /\ job[v].attempts[2].rc = 0 /\ job[v].attempts[2].file = "missing"
        /\ job[v].attempts[3].rc = 0 /\ job[v].attempts[3].file = "nonempty"
        /\ job[v].result.written_frames = 1
        /\ Len(job[v].result.errors) = 2


\* The job of v threw instead of returning a VideoResult
Raised(v) == job[v].pc = "raised"

\* The sum of a field over the VideoResults of the videos in seq whose
\* job returned one
RECURSIVE SumReturned(_, _)
SumReturned(seq, field) ==
    IF seq = <<>> THEN 0
    ELSE (IF Done(Head(seq)) THEN job[Head(seq)].result[field] ELSE 0)
            + SumReturned(Tail(seq), field)

\* C9: when a video's job throws, main logs the failure, adds nothing for
\* that video to results or to the requested/written totals, and goes on to
\* collect the results of every other submitted video; the batch is never
\* aborted by one video.
C9_ThrownJobExcluded ==
    /\ \A v \in yielded :
          /\ Len(SelectSeq(results, LAMBDA r : r.video_path = v))
                = IF Raised(v) THEN 0 ELSE 1
          /\ Len(SelectSeq(console,
                           LAMBDA l : l.video_path = v /\ l.status = "FAIL"))
                = IF Raised(v) THEN 1 ELSE 0
    /\ \A k \in DOMAIN results :
          /\ results[k].video_path \in yielded
          /\ results[k] = job[results[k].video_path].result
    /\ (pc \in {"summary", "exit"} /\ videos # <<>>) =>
          /\ yielded = Range(videos)
          /\ exit_code \in {-1, 0, 1}
          /\ summary.total_requested = SumReturned(videos, "requested_frames")
          /\ summary.total_written = SumReturned(videos, "written_frames")
          /\ \A k \in DOMAIN summary.failed_videos :
                ~Raised(summary.failed_videos[k].video_path)

\* The first submitted job threw; the other video was still collected and
\* alone makes up the results and the totals
C9_Witness ==
    /\ pc = "exit"
    /\ Len(videos) = 2
    /\ Raised(videos[1])
    /\ console[1] = [status |-> "FAIL", video_path |-> videos[1]]
    /\ results = <<job[videos[2]].result>>
    /\ summary.total_requested = 2
    /\ summary.total_written = 2

\* C10: once the setup checks pass, main returns 0 only if every video
\* submitted to the worker pool, one whose job threw included, ended with
\* zero errors and written_frames = requested_frames, and returns 1 if any
\* video had issues.
C10_ExitZeroOnlyIfEveryVideoClean ==
    (pc = "exit" /\ exit_code \in {0, 1}) =>
        (exit_code = 0 <=>
            \A v \in Range(videos) :
                /\ Done(v)
                /\ job[v].result.errors = <<>>
                /\ job[v].result.written_frames = job[v].result.requested_frames)

\* main has computed its totals and failed_videos
Summarised == pc \in {"summary", "qa"} \/ (pc = "exit" /\ qa # <<>>)

\* The spec's reading of a video with issues
WithIssues(res) ==
    \/ res.written_frames < res.requested_frames
    \/ res.errors # <<>>
    \/ res.written_frames = 0

\* The sum of a field over the first k collected results
RECURSIVE TotalOfFirst(_, _)
TotalOfFirst(k, field) ==
    IF k = 0 THEN 0 ELSE TotalOfFirst(k - 1, field) + results[k][field]

\* C11: a VideoResult is in the "videos with issues" list if and only if
\* written_frames < requested_frames, or its error list is non-empty, or
\* written_frames = 0 (and the list keeps the order of results); the totals
\* are the sums of requested_frames and written_frames over all collected
\* results.
C11_IssuesListAndTotals ==
    Summarised =>
        /\ summary.failed_videos = SelectSeq(results, WithIssues)
        /\ summary.total_requested = TotalOfFirst(Len(results), "requested_frames")
        /\ summary.total_written = TotalOfFirst(Len(results), "written_frames")

\* Two videos summarised: one wrote one of its two frames, the other both
C11_Witness ==
    /\ pc = "summary"
    /\ Len(results) = 2
    /\ \E k \in DOMAIN results :
          /\ results[k].written_frames = 1
          /\ results[k].requested_frames = 2
          /\ summary.failed_videos = <<results[k]>>
    /\ summary.total_requested = 4
    /\ summary.total_written = 3

\* The submitted job of v is over: it returned or it threw
Finished(v) == job[v].pc \in {"done", "raised"}

\* C12: run_quality_sampling starts only after every submitted video job
\* has finished: the step in which it reads the output directories is taken
\* from a state where no job is pending or running, and none is afterwards.
C12_SamplingAfterAllJobs ==
    [][qa' # qa => /\ \A v \in DOMAIN job : Finished(v)
                   /\ \A v \in DOMAIN job' : Finished(v)'
                   /\ DOMAIN job = Range(videos)
                   /\ yielded = Range(videos)]_vars

\* The sampler has validated an image after two jobs ran to their end
C12_Witness ==
    /\ pc = "qa"
    /\ Len(qa) = 1
    /\ qa[1].checked >= 1
    /\ Len(videos) = 2
    /\ \A v \in DOMAIN job : Done(v) /\ job[v].written > 0

\* main has submitted its jobs
Submitted == pc \in {"collect", "summary", "qa"} \/ (pc = "exit" /\ qa # <<>>)

\* C13: each discovered video (after the max-videos cap) is submitted to
\* the pool exactly once, and at every moment the number of jobs executing
\* is at most the configured worker count.
C13_SubmittedOnceWithinWorkers ==
    /\ Submitted =>
          /\ Len(videos) = IF max_videos > 0
                           THEN Min(max_videos, Len(discovered))
                           ELSE Len(discovered)
          /\ \A i \in DOMAIN videos : videos[i] = discovered[i]
          /\ \A i, k \in DOMAIN videos : videos[i] = videos[k] => i = k
          /\ DOMAIN job = Range(videos)
    /\ Cardinality(Running) <= workers

\* One worker and two submitted videos: one job runs, the other waits
C13_Witness ==
    /\ pc = "collect"
    /\ workers = 1
    /\ Len(videos) = 2
    /\ Cardinality(Running) = 1
    /\ \E v \in DOMAIN job : job[v].pc = "pending"

\* C14: two calls of run_quality_sampling with the same seed, the same
\* results list and unchanged output directories select the same
\* directories and the same images in the same order and return the same
\* checked count, passed count and messages (ffprobe giving the same
\* verdict on the same file), whatever order glob lists the files in.
C14_SameSeedSameSample ==
    Len(qa) = 2 =>
        /\ qa[1].raised = qa[2].raised
        /\ qa[1].chosen_dirs = qa[2].chosen_dirs
        /\ qa[1].validated = qa[2].validated
        /\ qa[1].checked = qa[2].checked
        /\ qa[1].passed = qa[2].passed
        /\ qa[1].messages = qa[2].messages

\* Both calls made; they sampled a folder of two images, validated both,
\* and one passed
C14_Witness ==
    /\ Len(qa) = 2
    /\ qa[2].checked = 2
    /\ qa[2].passed = 1
    /\ \E k \in DOMAIN qa[2].visits : Len(qa[2].visits[k].images) = 2

\* The results whose output directory is a candidate for sampling
Candidates ==
    SelectSeq(results, LAMBDA res : res.written_frames > 0 /\ res.output_dir \in dirs)

NoRepeat(seq) == \A i, k \in DOMAIN seq : seq[i] = seq[k] => i = k

\* C15: for sample_dirs >= 0 (and sample_images >= 0) run_quality_sampling
\* selects exactly min(sample_dirs, |candidates|) directories without
\* replacement, so that no output directory is sampled twice, the
\* candidates being the output directories of the results with
\* written_frames > 0 that exist on disk; in each selected directory it
\* validates exactly min(sample_images, |images|) distinct images.
C15_SampledWithoutReplacement ==
    \A c \in DOMAIN qa :
        (sample_dirs >= 0 /\ sample_images >= 0) =>
            /\ ~qa[c].raised
            /\ Len(qa[c].chosen_dirs) = Min(sample_dirs, Len(Candidates))
            /\ \A i \in DOMAIN qa[c].chosen_dirs :
                  \E k \in DOMAIN Candidates :
                      qa[c].chosen_dirs[i] = Candidates[k].output_dir
            /\ NoRepeat(qa[c].chosen_dirs)
            /\ Len(qa[c].visits) = Len(qa[c].chosen_dirs)
            /\ \A i \in DOMAIN qa[c].visits :
                  LET visit == qa[c].visits[i]
                  IN  /\ visit.folder = qa[c].chosen_dirs[i]
                      /\ Range(visit.images) = FilesIn(fs, visit.folder)
                      /\ Len(visit.chosen_images)
                            = Min(sample_images, Len(visit.images))
                      /\ NoRepeat(visit.chosen_images)
                      /\ Range(visit.chosen_images) \subseteq Range(visit.images)
            /\ Range(qa[c].validated)
                  = UNION {Range(qa[c].visits[i].chosen_images) :
                              i \in DOMAIN qa[c].visits}

\* The exit code the collected VideoResults alone determine
ExitCodeOf(res_list) ==
    IF \E k \in DOMAIN res_list : WithIssues(res_list[k]) THEN 1 ELSE 0

\* C16: the exit code of main does not depend on the outcomes of the QA
\* validation: once the sampler has run, main returns the code that the
\* collected VideoResults determine, whichever sampled images passed or
\* failed.
C16_ExitCodeIgnoresSampling ==
    (pc = "exit" /\ qa # <<>>) => exit_code = ExitCodeOf(results)

\* main returned 0 although a sampled image failed validation
C16_Witness ==
    /\ pc = "exit"
    /\ exit_code = 0
    /\ Len(qa) = 1
    /\ qa[1].checked >= 1
    /\ qa[1].passed < qa[1].checked

\* C17: build_timestamps fails with the invalid-interval error whenever
\* interval <= 0, for every duration, a duration <= 0 included (for which
\* a positive interval returns [0.0]); it never returns a schedule then.
C17_NonPositiveIntervalRaises ==
    sched.returned =>
        /\ FloatLeqZero(sched.interval_seconds) =>
              sched.raised /\ sched.value = <<>>
        /\ (FloatLeqZero(sched.duration_seconds)
               /\ FloatLess(Zero, sched.interval_seconds)) =>
              ~sched.raised /\ sched.value = <<Zero>>

\* The call with a duration <= 0 and an interval <= 0 has raised
C17_Witness ==
    /\ sched.returned
    /\ sched.raised
    /\ sched.duration_seconds = <<-1, 0>>
    /\ sched.interval_seconds = Zero

\* The names a video of the given duration gets at the given interval:
\* index k and the k-th timestamp for k in 1..N, index N+1 and the duration
ExpectedNames(duration_seconds, interval_seconds) ==
    LET timestamps == build_timestamps(duration_seconds, interval_seconds).value
    IN  [k \in 1..(Len(timestamps) + 1) |->
            <<"frame", k,
              1000 * (IF k <= Len(timestamps)
                      THEN timestamps[k][1] ELSE duration_seconds[1])>>]

\* C18: within one video the frame files are named from the indices 1..N
\* for the N scheduled timestamps in ascending order and N+1 for the last
\* frame, so no two frames of the same video get the same file name, and
\* the names depend only on the probed duration and the interval, not on
\* what the renders did.
C18_FrameNamesDistinctAndDetermined ==
    \A v \in DOMAIN job :
        LET attempts == job[v].attempts
            expected == ExpectedNames(media[v], time_interval)
        IN  /\ \A i, k \in DOMAIN attempts :
                  AttemptName(attempts[i]) = AttemptName(attempts[k]) => i = k
            /\ \A i \in DOMAIN attempts :
                  /\ i <= Len(expected)
                  /\ AttemptName(attempts[i]) = expected[i]
                  /\ attempts[i].kind = "last" <=> i = Len(expected)
            /\ (Done(v) /\ Scheduled(v)) => Len(attempts) = Len(expected)
            /\ \A p \in DOMAIN fs :
                  p[1] = output_dir(v) => p[2] \in Range(expected)

\* A 95 s video at 30 s: four scheduled frames and the last frame, five
\* names, with one render failed
C18_Witness ==
    \E v \in DOMAIN job :
        /\ Done(v)
        /\ media[v] = <<95, 0>>
        /\ Len(job[v].attempts) = 5
        /\ AttemptName(job[v].attempts[5]) = <<"frame", 5, 95000>>
        /\ job[v].written = 4

\* The counters as the loop over the folders left them before its i-th
\* iteration
CheckedBefore(report, i) == IF i = 1 THEN 0 ELSE report.visits[i - 1].checked
PassedBefore(report, i) == IF i = 1 THEN 0 ELSE report.visits[i - 1].passed

Count(seq, Test(_)) == Len(SelectSeq(seq, Test))

\* C19: in run_quality_sampling a selected directory with zero images adds
\* one warning message and leaves the checked and passed counters
\* unchanged; passed <= checked throughout, and checked equals the number
\* of images passed to validate_jpg.
C19_EmptyFolderWarnsOnly ==
    \A c \in DOMAIN qa :
        LET report == qa[c]
        IN  /\ report.passed <= report.checked
            /\ report.checked = Len(report.validated)
            /\ report.passed = Count(report.validated, LAMBDA p : probed[p])
            /\ \A i \in DOMAIN report.visits :
                  LET visit == report.visits[i]
                  IN  /\ visit.passed <= visit.checked
                      /\ visit.checked
                            = CheckedBefore(report, i) + Len(visit.chosen_images)
                      /\ visit.images = <<>> =>
                            /\ visit.checked = CheckedBefore(report, i)
                            /\ visit.passed = PassedBefore(report, i)
            /\ Count(report.messages, LAMBDA m : m.status = "WARN")
                  = Count(report.visits, LAMBDA visit : visit.images = <<>>)
            /\ Len(report.messages)
                  = IF report.candidate_dirs = <<>>
                    THEN 1
                    ELSE report.checked
                           + Count(report.visits, LAMBDA visit : visit.images = <<>>)

\* A call sampled an empty folder, then a folder of two images of which
\* one passed
C19_Witness ==
    \E c \in DOMAIN qa :
        /\ Len(qa[c].visits) = 2
        /\ qa[c].visits[1].images = <<>>
        /\ qa[c].visits[1].checked = 0
        /\ qa[c].messages[1].status = "WARN"
        /\ qa[c].checked = 2
        /\ qa[c].passed = 1

\* C20: run_quality_sampling leaves the set of frame files and their
\* contents unchanged: it lists directories and probes images, and never
\* creates, rewrites or deletes a frame file or a directory, nor changes
\* any VideoResult.
C20_SamplingOnlyReads ==
    [][qa' # qa => /\ fs' = fs
                   /\ dirs' = dirs
                   /\ results' = results
                   /\ job' = job
                   /\ summary' = summary]_vars

\* A call has validated an image and found it bad; the file is still
\* there, as it was
C20_Witness ==
    \E c \in DOMAIN qa :
        \E i \in DOMAIN qa[c].validated :
            /\ ~probed[qa[c].validated[i]]
            /\ qa[c].validated[i] \in DOMAIN fs
            /\ fs[qa[c].validated[i]] = "nonempty"

\* C21: no mutable state is shared between the jobs of different videos:
\* any two distinct videos of one batch have distinct output directories,
\* no frame file is the target of attempts of two jobs, and a job counts
\* as written only the files its own ffmpeg calls produced.
C21_NoSharedOutputState ==
    /\ \A v, w \in DOMAIN job :
          v # w =>
              /\ output_dir(v) # output_dir(w)
              /\ \A i \in DOMAIN job[v].attempts, k \in DOMAIN job[w].attempts :
                    AttemptPath(v, job[v].attempts[i])
                        # AttemptPath(w, job[w].attempts[k])
    /\ \A v \in DOMAIN job :
          job[v].written = Len(SelectSeq(job[v].attempts, Succeeded))

\* The VideoResults of the jobs that returned one, in the order the videos
\* were submitted
RECURSIVE InSubmissionOrder(_)
InSubmissionOrder(submitted) ==
    IF submitted = <<>>
    THEN <<>>
    ELSE (IF Done(Head(submitted)) THEN <<job[Head(submitted)].result>> ELSE <<>>)
            \o InSubmissionOrder(Tail(submitted))

\* What the sampler selects from the same VideoResults taken in submission
\* order, on the same disk
ReferenceSample ==
    run_quality_sampling(InSubmissionOrder(videos), sample_dirs, sample_images,
                         seed, dirs, CHOOSE l \in Listings(fs, dirs) : TRUE,
                         [p \in DOMAIN fs |-> FALSE])

\* C22: for a fixed seed and the same videos with the same per-video
\* outcomes, the directories and the images the sampler selects are the
\* same whatever order the jobs completed in: they are those it selects
\* from the results in submission order.
C22_SampleIgnoresCompletionOrder ==
    \A c \in DOMAIN qa :
        /\ Range(qa[c].chosen_dirs) = Range(ReferenceSample.chosen_dirs)
        /\ Range(qa[c].validated) = Range(ReferenceSample.validated)

\* The status main printed for the k-th collected VideoResult
StatusOf(k) ==
    LET printed == SelectSeq(console,
                       LAMBDA l : l.video_path = results[k].video_path
                                     /\ l.status # "FAIL")
    IN  printed[1].status

\* C23: the per-video status line and the summary agree: a collected
\* VideoResult is printed with status OK (no errors and written_frames =
\* requested_frames) if and only if it is not counted in "Videos with
\* issues" (written_frames = 0 or a non-empty error list), so main returns
\* 1 exactly when at least one WARN line was printed.
C23_StatusLineAgreesWithSummary ==
    /\ \A k \in DOMAIN results :
          /\ StatusOf(k) \in {"OK", "WARN"}
          /\ StatusOf(k) = "OK" <=>
                (results[k].errors = <<>>
                    /\ results[k].written_frames = results[k].requested_frames)
          /\ StatusOf(k) = "OK" <=>
                ~(results[k].written_frames = 0 \/ results[k].errors # <<>>)
    /\ Summarised =>
          \A k \in DOMAIN results :
              StatusOf(k) = "WARN" <=>
                  \E i \in DOMAIN summary.failed_videos :
                      summary.failed_videos[i] = results[k]
    /\ pc = "exit" =>
          (exit_code = 1 <=> \E i \in DOMAIN console : console[i].status = "WARN")

\* main returned 1 after printing one OK line and one WARN line
C23_Witness ==
    /\ pc = "exit"
    /\ exit_code = 1
    /\ Len(results) = 2
    /\ \E k \in DOMAIN console : console[k].status = "OK"
    /\ \E k \in DOMAIN console : console[k].status = "WARN"
    /\ Len(summary.failed_videos) = 1

\* The [FAIL] lines main printed for jobs that threw
LoggedFailures == SelectSeq(console, LAMBDA l : l.status = "FAIL")

\* C24: if every collaborator call returns, every submitted video job
\* eventually ends and main eventually prints the summary and runs the
\* sampler; from then on every submitted video has been handled exactly
\* once, as one VideoResult in results or as one logged job failure, so
\* |results| + number of logged job failures = number of submitted videos.
C24_BatchCompletesAndAccountsForAll ==
    /\ (pc = "collect") ~>
          (/\ \A v \in DOMAIN job : Finished(v)
           /\ pc \in {"qa", "exit"}
           /\ Len(qa) = 1)
    /\ [](Summarised =>
            /\ Len(results) + Len(LoggedFailures) = Len(videos)
            /\ \A i \in DOMAIN videos :
                  Len(SelectSeq(results, LAMBDA r : r.video_path = videos[i]))
                    + Len(SelectSeq(LoggedFailures,
                                    LAMBDA l : l.video_path = videos[i])) = 1)

\* The summary and the sampler have run on a batch of two videos, one
\* collected as a VideoResult and one logged as a job failure
C24_Witness ==
    /\ pc = "qa"
    /\ Len(qa) = 1
    /\ Len(videos) = 2
    /\ Len(results) = 1
    /\ Len(LoggedFailures) = 1

\* n <= ceil(duration / interval) for interval > 0, in exact arithmetic:
\* n - 1 < duration / interval, that is (n - 1) * interval < duration
AtMostCeilOfRatio(n, duration, interval) ==
    FloatLess(ExactMultiple(n - 1, interval), duration)

\* C25: for every duration > 0 and every interval > 0, the number of
\* timestamps build_timestamps returns is at most ceil(duration / interval);
\* and for every duration, 0 is among the timestamps, also when
\* interval >= duration.
C25_CountAtMostCeil ==
    (sched.returned /\ ~sched.raised) =>
        /\ \E n \in DOMAIN sched.value : sched.value[n] = Zero
        /\ ~FloatLeqZero(sched.duration_seconds) =>
              AtMostCeilOfRatio(Len(sched.value), sched.duration_seconds,
                                sched.interval_seconds)
====
